---- MODULE Spec2Model ----
(***************************************************************************)
(* A model of the MIDI chord detector: the note-state tracker of           *)
(* MIDIChordRecognizer (core/chord_recognition_engine.py) and the chord    *)
(* matcher of ChordTheory (core/music_theory.py).                          *)
(***************************************************************************)
EXTENDS Integers, Sequences, FiniteSets, TLC

VARIABLES
    active_notes,                      \* MIDIChordRecognizer.active_notes
    sustain_pedal_on,                  \* MIDIChordRecognizer.sustain_pedal_on
    sustained_notes_pending_release,   \* MIDIChordRecognizer.sustained_notes_pending_release
    log,                               \* the last LogLen calls of _process_midi_message
    CHORD_DEFINITIONS,                 \* ChordTheory.CHORD_DEFINITIONS (class attribute)
    genre,                             \* ChordTheory.genre
    recent_chords,                     \* ChordTheory.recent_chords
    call,                              \* the last call made on the ChordTheory instance
    pc,                                \* "idle" before that call, "done" after it
    results,                           \* what every recognize_chord call of the instance returned, in order
    sink,                              \* the data handed to update_callback, in order
    sessions,                          \* the MIDIChordRecognizer objects of the process
    engine                             \* the threads of the MIDIChordRecognizer: running, the port, the handler's and stop()'s position

trackerVars == <<active_notes, sustain_pedal_on, sustained_notes_pending_release, log>>
theoryVars == <<CHORD_DEFINITIONS, genre, recent_chords, call, pc>>
hostVars == <<results, sink, sessions, engine>>
vars == <<active_notes, sustain_pedal_on, sustained_notes_pending_release, log,
          CHORD_DEFINITIONS, genre, recent_chords, call, pc, results, sink, sessions,
          engine>>

----------------------------------------------------------------------------
(* Bounds of the model. *)

\* number of distinct keys of the keyboard that send note messages
NumKeys == 2
\* number of past _process_midi_message calls the log remembers
LogLen == 2

\* the lowest key played: middle C, MIDI note 60
LowestKey == 5 * 12
\* number of adjacent keys, from LowestKey up, that recognize_chord is given
RangeKeys == 13
\* the largest number of notes played together
MaxNotes == 3
\* a note number beyond the MIDI range 0..127
BadNote == 128

\* DEFAULT_MIN_NOTES_FOR_CHORD of the engine
DEFAULT_MIN_NOTES_FOR_CHORD == 2

Keys == LowestKey .. (LowestKey + NumKeys - 1)
NoteValues == Keys \cup {BadNote}
ValidNote(n) == n \in 0..127

----------------------------------------------------------------------------
(* MIDI messages, as the fields _process_midi_message reads. *)

NoteOnMsg(n, v) ==
    [type |-> "note_on", note |-> n, velocity |-> v, control |-> 0, value |-> 0]
NoteOffMsg(n) ==
    [type |-> "note_off", note |-> n, velocity |-> 0, control |-> 0, value |-> 0]
ControlMsg(c, v) ==
    [type |-> "control_change", note |-> 0, velocity |-> 0, control |-> c, value |-> v]

Messages ==
    {NoteOnMsg(n, v) : n \in NoteValues, v \in {0, 64}}
        \cup {NoteOffMsg(n) : n \in NoteValues}
        \cup {ControlMsg(c, v) : c \in {1, 64}, v \in {63, 64}}

IsNoteOn(msg) == msg.type = "note_on" /\ msg.velocity > 0
IsNoteOff(msg) == msg.type = "note_off" \/ (msg.type = "note_on" /\ msg.velocity = 0)
IsSustain(msg) == msg.type = "control_change" /\ msg.control = 64
IsPedalDown(msg) == IsSustain(msg) /\ msg.value >= 64
IsPedalUp(msg) == IsSustain(msg) /\ msg.value < 64

----------------------------------------------------------------------------
(* _process_midi_message: the tracker state after the message, and the     *)
(* changed flag the call returns. A state is a record                      *)
(* [active, pending, pedal].                                               *)

\* mutant: the note_on forgets to take the pitch out of the pending set
NoteOnBranch_KeepsPending(st, msg) ==
    [active  |-> st.active \cup {msg.note},
     pending |-> st.pending,
     pedal   |-> st.pedal,
     changed |-> msg.note \notin st.active]

\* mutant: the note_on reports a change whenever the pitch was pending release
NoteOnBranch_RepressChanges(st, msg) ==
    [active  |-> st.active \cup {msg.note},
     pending |-> st.pending \ {msg.note},
     pedal   |-> st.pedal,
     changed |-> msg.note \notin st.active \/ msg.note \in st.pending]

NoteOnBranch(st, msg) ==
    [active  |-> st.active \cup {msg.note},
     pending |-> st.pending \ {msg.note},
     pedal   |-> st.pedal,
     changed |-> msg.note \notin st.active]

\* mutant: the note_off ignores the sustain pedal
NoteOffBranch_IgnoresPedal(st, msg) ==
    [active  |-> st.active \ {msg.note},
     pending |-> st.pending \ {msg.note},
     pedal   |-> st.pedal,
     changed |-> msg.note \in st.active]

\* mutant: with the pedal down a released pitch is put in the pending set
\* whether it sounds or not
NoteOffBranch_PendsSilent(st, msg) ==
    IF st.pedal
    THEN [active  |-> st.active,
          pending |-> st.pending \cup {msg.note},
          pedal   |-> st.pedal,
          changed |-> FALSE]
    ELSE [active  |-> st.active \ {msg.note},
          pending |-> st.pending \ {msg.note},
          pedal   |-> st.pedal,
          changed |-> msg.note \in st.active]

NoteOffBranch(st, msg) ==
    IF st.pedal
    THEN [active  |-> st.active,
          pending |-> IF msg.note \in st.active /\ msg.note \notin st.pending
                      THEN st.pending \cup {msg.note}
                      ELSE st.pending,
          pedal   |-> st.pedal,
          changed |-> FALSE]
    ELSE [active  |-> st.active \ {msg.note},
          pending |-> st.pending \ {msg.note},
          pedal   |-> st.pedal,
          changed |-> msg.note \in st.active]

\* mutant: every pedal release reports a change
SustainBranch_AlwaysChanged(st, msg) ==
    LET pedal_just_turned_off == msg.value < 64 /\ st.pedal
    IN  IF pedal_just_turned_off
        THEN [active  |-> st.active \ st.pending,
              pending |-> {},
              pedal   |-> FALSE,
              changed |-> TRUE]
        ELSE [active  |-> st.active,
              pending |-> st.pending,
              pedal   |-> IF msg.value >= 64 THEN TRUE ELSE st.pedal,
              changed |-> FALSE]

SustainBranch(st, msg) ==
    LET pedal_just_turned_off == msg.value < 64 /\ st.pedal
        notes_to_remove == st.pending
    IN  IF pedal_just_turned_off
        THEN [active  |-> st.active \ notes_to_remove,
              pending |-> {},
              pedal   |-> FALSE,
              changed |-> notes_to_remove # {}]
        ELSE [active  |-> st.active,
              pending |-> st.pending,
              pedal   |-> IF msg.value >= 64 THEN TRUE ELSE st.pedal,
              changed |-> FALSE]

ProcessMidiMessage(st, msg) ==
    IF IsNoteOn(msg) THEN NoteOnBranch(st, msg)
    ELSE IF IsNoteOff(msg) THEN NoteOffBranch(st, msg)
    ELSE IF IsSustain(msg) THEN SustainBranch(st, msg)
    ELSE [active |-> st.active, pending |-> st.pending, pedal |-> st.pedal,
          changed |-> FALSE]

----------------------------------------------------------------------------
(* ChordTheory: the class constants.                                       *)

\* a threshold of 0.5
MIN_ACCEPTABLE_CHORD_SCORE_Half == [num |-> 5, den |-> 10]

\* MIN_ACCEPTABLE_CHORD_SCORE = 0.6, as the fraction 6/10
MIN_ACCEPTABLE_CHORD_SCORE == [num |-> 6, den |-> 10]

NOTE_PITCH_CLASSES ==
    <<"C", "C#", "D", "D#", "E", "F", "F#", "G", "G#", "A", "A#", "B">>

\* INTERVAL_WEIGHTS, in tenths (0.8 is 8), indexed by interval + 1
INTERVAL_WEIGHTS == <<8, 3, 3, 10, 10, 3, 3, 5, 3, 3, 10, 10>>

Template(id, core, optional) == [chord_type |-> id, core |-> core, optional |-> optional]

\* the built-in CHORD_DEFINITIONS, in definition order
DEFAULT_CHORD_DEFINITIONS ==
    <<
    Template("maj", {0, 4, 7}, {}),
    Template("add4", {0, 4, 7}, {5}),
    Template("6", {0, 4, 7}, {9}),
    Template("6/9", {0, 4, 7}, {2, 9}),
    Template("maj7", {0, 4, 7, 11}, {}),
    Template("maj9", {0, 4, 7, 11}, {2}),
    Template("maj11", {0, 4, 7, 11}, {2, 5}),
    Template("maj13", {0, 4, 7, 11}, {2, 5, 9}),
    Template("maj7#11", {0, 4, 7, 11}, {6}),
    Template("majb5", {0, 4, 6}, {}),
    Template("min", {0, 3, 7}, {}),
    Template("madd4", {0, 3, 7}, {5}),
    Template("min6", {0, 3, 7}, {9}),
    Template("min7", {0, 3, 7, 10}, {}),
    Template("madd9", {0, 3, 7}, {2}),
    Template("m6/9", {0, 3, 7}, {2, 9}),
    Template("min9", {0, 3, 7, 10}, {2}),
    Template("min11", {0, 3, 7, 10}, {2, 5}),
    Template("min13", {0, 3, 7, 10}, {2, 5, 9}),
    Template("minMaj7", {0, 3, 7, 11}, {}),
    Template("minMaj9", {0, 3, 7, 11}, {2}),
    Template("min7b5", {0, 3, 6, 10}, {}),
    Template("7", {0, 4, 10}, {7}),
    Template("9", {0, 4, 10}, {2, 7}),
    Template("11", {0, 4, 10}, {2, 5, 7}),
    Template("13", {0, 4, 10}, {2, 7, 9}),
    Template("7#5", {0, 4, 10}, {8}),
    Template("7b9", {0, 4, 10}, {1, 7}),
    Template("7#9", {0, 4, 10}, {3, 7}),
    Template("7b13", {0, 4, 10}, {7, 8}),
    Template("7#5b9", {0, 4, 10}, {1, 8}),
    Template("9#5", {0, 4, 10}, {2, 8}),
    Template("sus4", {0, 5, 7}, {}),
    Template("sus2", {0, 2, 7}, {}),
    Template("7sus4", {0, 5, 10}, {7}),
    Template("dim", {0, 3, 6}, {}),
    Template("aug", {0, 4, 8}, {}),
    Template("dim7", {0, 3, 6, 9}, {}),
    Template("7b5", {0, 4, 6, 10}, {}),
    Template("5", {0, 7}, {})
    >>

\* the chord types adjust_score_for_context boosts
JazzAlteredTypes == {"7b13", "7#5", "7b9", "7#9", "7#5b9", "9#5"}
MinorSeventhTypes == {"min7", "min9"}
DominantTypes == {"7", "9", "13", "7b13", "7#5", "7b9", "7#9", "7#5b9"}

----------------------------------------------------------------------------
(* Scores. The code computes them in floating point from the weights in    *)
(* tenths; the model keeps them as exact fractions [num, den], den > 0.    *)
(* raised is TRUE when computing the score divided by zero.                *)

Frac(n, d) == [num |-> n, den |-> d, raised |-> FALSE]
ZeroDivision == [num |-> 0, den |-> 1, raised |-> TRUE]
Gt(a, b) == a.num * b.den > b.num * a.den
Eq(a, b) == a.num * b.den = b.num * a.den
Lt(a, b) == a.num * b.den < b.num * a.den
Times(a, n, d) == [num |-> a.num * n, den |-> a.den * d, raised |-> a.raised]
Min(a, b) == IF a < b THEN a ELSE b
Max(a, b) == IF a > b THEN a ELSE b

\* round(score, 3), in thousandths
Round3(a) == (2000 * a.num + a.den) \div (2 * a.den)

\* the weight interval i adds to the sum over S, in tenths
WeightIn(S, i) == IF i \in S THEN INTERVAL_WEIGHTS[i + 1] ELSE 0

RECURSIVE SumWeightsFrom(_)
SumWeightsFrom(S) ==
    IF S = {} THEN 0
    ELSE LET i == CHOOSE x \in S : TRUE
         IN  INTERVAL_WEIGHTS[(i % 12) + 1] + SumWeightsFrom(S \ {i})

\* sum(cls.INTERVAL_WEIGHTS.get(i % 12, 0.3) for i in S), in tenths
SumWeights(S) ==
    IF S \subseteq 0..11
    THEN WeightIn(S, 0) + WeightIn(S, 1) + WeightIn(S, 2) + WeightIn(S, 3)
           + WeightIn(S, 4) + WeightIn(S, 5) + WeightIn(S, 6) + WeightIn(S, 7)
           + WeightIn(S, 8) + WeightIn(S, 9) + WeightIn(S, 10) + WeightIn(S, 11)
    ELSE SumWeightsFrom(S)

\* calculate_weighted_score without the rule that a definition of more than
\* 3 core intervals needs them all
calculate_weighted_score_NoCoreRule(played_pcs, core_intervals, optional_intervals) ==
    LET core_score == SumWeights(played_pcs \cap core_intervals)
        optional_score == SumWeights(played_pcs \cap optional_intervals)
        total_defined_weight == SumWeights(core_intervals)
        penalty == Min(Cardinality(played_pcs \ (core_intervals \cup optional_intervals)), 3)
        num == 20 * core_score
                 + (IF optional_intervals # {} THEN 10 * optional_score ELSE 0)
                 - penalty * total_defined_weight
    IN  IF total_defined_weight = 0
        THEN IF optional_intervals # {} THEN ZeroDivision ELSE Frac(0, 1)
        ELSE Frac(Max(num, 0), 20 * total_defined_weight)

\* ChordTheory.calculate_weighted_score
calculate_weighted_score(played_pcs, core_intervals, optional_intervals) ==
    LET matched_core == played_pcs \cap core_intervals
        matched_optional == played_pcs \cap optional_intervals
        extra_notes == played_pcs \ (core_intervals \cup optional_intervals)
        core_score == SumWeights(matched_core)
        optional_score == SumWeights(matched_optional)
        total_defined_weight == SumWeights(core_intervals)
        \* penalty = min(len(extra_notes) * 0.05, 0.15), in twentieths
        penalty == Min(Cardinality(extra_notes), 3)
        \* base_score - penalty over the denominator 20 * total_defined_weight
        num == 20 * core_score
                 + (IF optional_intervals # {} THEN 10 * optional_score ELSE 0)
                 - penalty * total_defined_weight
    IN  IF total_defined_weight = 0
        THEN IF optional_intervals # {} THEN ZeroDivision ELSE Frac(0, 1)
        ELSE IF Cardinality(core_intervals) > 3 /\ ~(core_intervals \subseteq played_pcs)
        THEN Frac(0, 1)
        ELSE Frac(Max(num, 0), 20 * total_defined_weight)

\* adjust_score_for_context boosting every chord type in jazz
adjust_score_for_context_BoostsAll(self, chord_type, score) ==
    LET s1 == IF self.genre = "jazz" THEN Times(score, 6, 5) ELSE score
    IN  IF /\ Len(self.recent_chords) > 0
           /\ self.recent_chords[Len(self.recent_chords)].chord_type \in MinorSeventhTypes
           /\ chord_type \in DominantTypes
        THEN Times(s1, 11, 10)
        ELSE s1

\* ChordTheory.adjust_score_for_context; self is the instance:
\* [CHORD_DEFINITIONS, genre, recent_chords]
adjust_score_for_context(self, chord_type, score) ==
    LET s1 == IF self.genre = "jazz" /\ chord_type \in JazzAlteredTypes
              THEN Times(score, 6, 5) ELSE score
    IN  IF /\ Len(self.recent_chords) > 0
           /\ self.recent_chords[Len(self.recent_chords)].chord_type \in MinorSeventhTypes
           /\ chord_type \in DominantTypes
        THEN Times(s1, 11, 10)
        ELSE s1

----------------------------------------------------------------------------
(* ChordTheory.recognize_chord.                                            *)

midi_to_pitch_class_name(midi_note) ==
    IF ~(0 <= midi_note /\ midi_note <= 127) THEN "Invalid"
    ELSE NOTE_PITCH_CLASSES[(midi_note % 12) + 1]

\* best_match_info before the search
NoBestMatch ==
    [score |-> Frac(-1, 1), root_pc |-> -1, chord_type |-> "None",
     core |-> {}, optional |-> {}, matched_core_intervals |-> {}]

Candidate(score, root_pc_candidate, def, relative_played_pcs) ==
    [score |-> score, root_pc |-> root_pc_candidate, chord_type |-> def.chord_type,
     core |-> def.core, optional |-> def.optional,
     matched_core_intervals |-> relative_played_pcs \cap def.core]

\* len(matched core) + len(core) * 0.1, in tenths
MatchStrength(matched, core) == 10 * Cardinality(matched) + Cardinality(core)

\* Consider with a tie going to the later definition whatever its strength
Consider_LaterWinsTies(best, self, root_pc_candidate, relative_played_pcs, def) ==
    LET score == adjust_score_for_context(self, def.chord_type,
                     calculate_weighted_score(relative_played_pcs, def.core, def.optional))
    IN  IF best.score.raised THEN best
        ELSE IF score.raised THEN [best EXCEPT !.score = score]
        ELSE IF Gt(score, best.score) \/ (Eq(score, best.score) /\ score.num > 0)
        THEN Candidate(score, root_pc_candidate, def, relative_played_pcs)
        ELSE best

\* Consider with a tie leaving the earlier candidate whatever the strengths
Consider_FirstKeepsTies(best, self, root_pc_candidate, relative_played_pcs, def) ==
    LET score == adjust_score_for_context(self, def.chord_type,
                     calculate_weighted_score(relative_played_pcs, def.core, def.optional))
    IN  IF best.score.raised THEN best
        ELSE IF score.raised THEN [best EXCEPT !.score = score]
        ELSE IF Gt(score, best.score)
        THEN Candidate(score, root_pc_candidate, def, relative_played_pcs)
        ELSE best

\* one iteration of the inner loop: best_match_info after scoring def
Consider(best, self, root_pc_candidate, relative_played_pcs, def) ==
    LET score == adjust_score_for_context(self, def.chord_type,
                     calculate_weighted_score(relative_played_pcs, def.core, def.optional))
    IN  IF best.score.raised THEN best
        ELSE IF score.raised THEN [best EXCEPT !.score = score]
        ELSE IF Gt(score, best.score)
        THEN Candidate(score, root_pc_candidate, def, relative_played_pcs)
        ELSE IF Eq(score, best.score) /\ score.num > 0
                /\ MatchStrength(relative_played_pcs \cap def.core, def.core)
                     > MatchStrength(best.matched_core_intervals, best.core)
        THEN Candidate(score, root_pc_candidate, def, relative_played_pcs)
        ELSE best

\* the inner loop over the definitions lo..hi of the table, in table order:
\* the definitions lo..mid, then the definitions mid+1..hi. root_pc >= -1
\* holds of every best_match_info; testing it evaluates the first half
\* before the second starts.
RECURSIVE ScanDefinitions(_, _, _, _, _, _)
ScanDefinitions(best, self, root_pc_candidate, relative_played_pcs, lo, hi) ==
    IF lo > hi THEN best
    ELSE IF lo = hi
    THEN Consider(best, self, root_pc_candidate, relative_played_pcs,
                  self.CHORD_DEFINITIONS[lo])
    ELSE LET mid == (lo + hi) \div 2
             next == ScanDefinitions(best, self, root_pc_candidate,
                                     relative_played_pcs, lo, mid)
         IN  IF next.root_pc >= -1
             THEN ScanDefinitions(next, self, root_pc_candidate,
                                  relative_played_pcs, mid + 1, hi)
             ELSE next

\* the outer loop, from root_pc_candidate on
RECURSIVE ScanRoots(_, _, _, _)
ScanRoots(best, self, played_pitch_classes, root_pc_candidate) ==
    IF root_pc_candidate > 11 THEN best
    ELSE LET relative_played_pcs ==
                 {(p - root_pc_candidate + 12) % 12 : p \in played_pitch_classes}
             next == ScanDefinitions(best, self, root_pc_candidate,
                                     relative_played_pcs,
                                     1, Len(self.CHORD_DEFINITIONS))
         IN  IF next.root_pc >= -1
             THEN ScanRoots(next, self, played_pitch_classes, root_pc_candidate + 1)
             ELSE next

\* best_match_info after both loops
BestMatch(self, played_pitch_classes) ==
    ScanRoots(NoBestMatch, self, played_pitch_classes, 0)

SetMin(S) == CHOOSE x \in S : \A y \in S : x <= y

\* InversionText counting the inversion from 1 instead of 0
InversionText_OffByOne(best, actual_bass_pc) ==
    LET bass_interval_rel_to_root == (actual_bass_pc - best.root_pc + 12) % 12
        inversion_index == Cardinality({i \in best.core : i <= bass_interval_rel_to_root})
    IN  IF bass_interval_rel_to_root = 0 THEN "Root Position"
        ELSE IF bass_interval_rel_to_root \in best.core
        THEN CASE inversion_index = 1 -> "1st Inversion"
               [] inversion_index = 2 -> "2nd Inversion"
               [] inversion_index = 3 -> "3rd Inversion"
               [] OTHER -> "Inversion (bass is " \o ToString(inversion_index + 1)
                               \o "th tone)"
        ELSE IF bass_interval_rel_to_root \in best.optional
        THEN "Slash Chord (bass is extension)"
        ELSE "Slash Chord (bass not a core tone)"

\* InversionText with every bass outside the core called not a core tone
InversionText_NoExtension(best, actual_bass_pc) ==
    LET bass_interval_rel_to_root == (actual_bass_pc - best.root_pc + 12) % 12
        inversion_index == Cardinality({i \in best.core : i < bass_interval_rel_to_root})
    IN  IF bass_interval_rel_to_root = 0 THEN "Root Position"
        ELSE IF bass_interval_rel_to_root \in best.core
        THEN CASE inversion_index = 1 -> "1st Inversion"
               [] inversion_index = 2 -> "2nd Inversion"
               [] inversion_index = 3 -> "3rd Inversion"
               [] OTHER -> "Inversion (bass is " \o ToString(inversion_index + 1)
                               \o "th tone)"
        ELSE "Slash Chord (bass not a core tone)"

\* the inversion text of an accepted match
InversionText(best, actual_bass_pc) ==
    LET bass_interval_rel_to_root == (actual_bass_pc - best.root_pc + 12) % 12
        \* sorted_core_intervals.index(bass_interval_rel_to_root)
        inversion_index == Cardinality({i \in best.core : i < bass_interval_rel_to_root})
    IN  IF bass_interval_rel_to_root = 0 THEN "Root Position"
        ELSE IF bass_interval_rel_to_root \in best.core
        THEN CASE inversion_index = 1 -> "1st Inversion"
               [] inversion_index = 2 -> "2nd Inversion"
               [] inversion_index = 3 -> "3rd Inversion"
               [] OTHER -> "Inversion (bass is " \o ToString(inversion_index + 1)
                               \o "th tone)"
        ELSE IF bass_interval_rel_to_root \in best.optional
        THEN "Slash Chord (bass is extension)"
        ELSE "Slash Chord (bass not a core tone)"

None == [kind |-> "None"]
Raised(e) == [kind |-> e]

\* the dict recognize_chord returns for an accepted match
ChordResult(best, played_midi_notes) ==
    LET lowest_midi_note == SetMin(played_midi_notes)
        actual_bass_pc == lowest_midi_note % 12
        root_name == midi_to_pitch_class_name(best.root_pc)
        actual_bass_name == midi_to_pitch_class_name(actual_bass_pc)
    IN  [kind |-> "chord",
         full_chord_name |->
             IF actual_bass_pc # best.root_pc
             THEN root_name \o best.chord_type \o "/" \o actual_bass_name
             ELSE root_name \o best.chord_type,
         root_note_pc |-> best.root_pc,
         root_note_name |-> root_name,
         bass_note_midi |-> lowest_midi_note,
         bass_note_pc |-> actual_bass_pc,
         bass_note_name |-> actual_bass_name,
         chord_type |-> best.chord_type,
         inversion_type |-> InversionText(best, actual_bass_pc),
         score |-> Round3(best.score),
         played_notes_midi |-> played_midi_notes,
         defined_intervals_core |-> best.core,
         defined_intervals_optional |-> best.optional]

\* recognize_chord without the early return on too few notes
recognize_chord_NoMinNotes(self, played_midi_notes, min_notes_for_chord) ==
    IF played_midi_notes = {} THEN Raised("IndexError")
    ELSE LET played_pitch_classes == {n % 12 : n \in played_midi_notes}
             best == BestMatch(self, played_pitch_classes)
         IN  IF best.score.raised THEN Raised("ZeroDivisionError")
             ELSE IF Lt(best.score, MIN_ACCEPTABLE_CHORD_SCORE) THEN None
             ELSE ChordResult(best, played_midi_notes)

\* the value recognize_chord returns, or the exception it raises
recognize_chord(self, played_midi_notes, min_notes_for_chord) ==
    IF Cardinality(played_midi_notes) < min_notes_for_chord THEN None
    ELSE IF played_midi_notes = {} THEN Raised("IndexError")
    ELSE LET played_pitch_classes == {n % 12 : n \in played_midi_notes}
             best == BestMatch(self, played_pitch_classes)
         IN  IF best.score.raised THEN Raised("ZeroDivisionError")
             ELSE IF Lt(best.score, MIN_ACCEPTABLE_CHORD_SCORE) THEN None
             ELSE ChordResult(best, played_midi_notes)

\* self.recent_chords after the call
RecentAfter_DropsNewest(recent, result) ==
    IF result.kind # "chord" THEN recent
    ELSE IF Len(recent) + 1 > 3 THEN recent
    ELSE Append(recent, result)

RecentAfter_Restarts(recent, result) ==
    IF result.kind # "chord" THEN recent
    ELSE IF Len(recent) + 1 > 3 THEN <<result>>
    ELSE Append(recent, result)

RecentAfter(recent, result) ==
    IF result.kind # "chord" THEN recent
    ELSE IF Len(recent) + 1 > 3 THEN Tail(Append(recent, result))
    ELSE Append(recent, result)

\* the ChordTheory instance
Self ==
    [CHORD_DEFINITIONS |-> CHORD_DEFINITIONS, genre |-> genre,
     recent_chords |-> recent_chords]

TrackerState ==
    [active |-> active_notes, pending |-> sustained_notes_pending_release,
     pedal |-> sustain_pedal_on]

\* what the log keeps of one call: the message, the state before it, the
\* returned flag and the exception the call raised ("none": it returned)
LogEntry(st, msg, r) ==
    [msg |-> msg, active |-> st.active, pending |-> st.pending, pedal |-> st.pedal,
     changed |-> r.changed, raised |-> "none"]

Append1(s, e) == IF Len(s) < LogLen THEN Append(s, e) ELSE Append(Tail(s), e)

\* one call of _process_midi_message(msg)
Process(msg) ==
    LET st == TrackerState
        r == ProcessMidiMessage(st, msg)
    IN  /\ active_notes' = r.active
        /\ sustained_notes_pending_release' = r.pending
        /\ sustain_pedal_on' = r.pedal
        /\ log' = Append1(log, LogEntry(st, msg, r))
        /\ UNCHANGED theoryVars
        /\ UNCHANGED hostVars

NoCall == [op |-> "none"]

\* no message in the handler's hand
NoMsg == [type |-> "none", note |-> 0, velocity |-> 0, control |-> 0, value |-> 0]

\* nothing returned, nothing handed over, no further object made, the
\* recognizer not started
HostInit ==
    /\ results = <<>>
    /\ sink = <<>>
    /\ sessions = <<>>
    /\ engine = [running |-> FALSE, port |-> <<>>, closed |-> FALSE,
                 handler |-> "none", msg |-> NoMsg, stop |-> "idle",
                 arrived |-> <<>>, applied |-> <<>>]

\* MIDIChordRecognizer.__init__
TrackerInit ==
    /\ active_notes = {}
    /\ sustain_pedal_on = FALSE
    /\ sustained_notes_pending_release = {}
    /\ log = <<>>

Init ==
    /\ TrackerInit
    /\ CHORD_DEFINITIONS = DEFAULT_CHORD_DEFINITIONS
    /\ genre = "jazz"
    /\ recent_chords = <<>>
    /\ call = NoCall
    /\ pc = "idle"
    /\ HostInit

Next == \E msg \in Messages : Process(msg)

Spec == Init /\ [][Next]_vars

----------------------------------------------------------------------------
(* One call on a newly made ChordTheory instance: recognize_chord on a set *)
(* of played notes, or calculate_weighted_score on a set of pitch classes  *)
(* and a definition of the table.                                          *)

Genres == {"jazz", "pop"}
PlayedRange == LowestKey .. (LowestKey + RangeKeys - 1)

\* the core of the j-th built-in definition, played from the lowest key up
CoreAtLowestKey(j) == {LowestKey + i : i \in DEFAULT_CHORD_DEFINITIONS[j].core}

\* C C# G G# A# B: the power chord on C and the later major flat five on G
\* reach the same score on it
TiedSet == {LowestKey + i : i \in {0, 1, 7, 8, 10, 11}}

\* C C# F G#: the major seventh chord on C# with its seventh in the bass
SeventhOnBassSet == {LowestKey + i : i \in {0, 1, 5, 8}}

\* the sets of played notes: every set of at most MaxNotes keys of the range,
\* the core of every built-in definition on the lowest key, TiedSet and
\* SeventhOnBassSet
PlayedSets ==
    {S \in SUBSET PlayedRange : Cardinality(S) <= MaxNotes}
      \cup {CoreAtLowestKey(j) : j \in 1..Len(DEFAULT_CHORD_DEFINITIONS)}
      \cup {TiedSet, SeventhOnBassSet}

\* min_notes_for_chord: none, the engine's default, more than any played set
MinNotesValues == {0, DEFAULT_MIN_NOTES_FOR_CHORD, MaxNotes + 2}
PitchClassSets == {S \in SUBSET (0..11) : Cardinality(S) <= MaxNotes}

\* ChordTheory.__init__, the chord definition file absent
InitRecognize ==
    /\ TrackerInit
    /\ CHORD_DEFINITIONS = DEFAULT_CHORD_DEFINITIONS
    /\ genre \in Genres
    /\ recent_chords = <<>>
    /\ call = NoCall
    /\ pc = "idle"
    /\ HostInit

\* self.recognize_chord(played_midi_notes, min_notes_for_chord)
RecognizeChord ==
    /\ pc = "idle"
    /\ \E played_midi_notes \in PlayedSets, min_notes_for_chord \in MinNotesValues :
          call' = [op |-> "recognize_chord",
                   played_midi_notes |-> played_midi_notes,
                   min_notes_for_chord |-> min_notes_for_chord,
                   history |-> recent_chords,
                   result |-> recognize_chord(Self, played_midi_notes,
                                              min_notes_for_chord)]
    /\ recent_chords' = RecentAfter(recent_chords, call'.result)
    /\ pc' = "done"
    /\ UNCHANGED <<CHORD_DEFINITIONS, genre>>
    /\ UNCHANGED trackerVars
    /\ UNCHANGED hostVars

\* ChordTheory.calculate_weighted_score(played_pcs, core, optional) on the
\* j-th definition of the table
CalculateWeightedScore ==
    /\ pc = "idle"
    /\ \E played_pcs \in PitchClassSets, j \in 1..Len(CHORD_DEFINITIONS) :
          LET def == CHORD_DEFINITIONS[j]
          IN  call' = [op |-> "calculate_weighted_score",
                      played_pcs |-> played_pcs,
                      chord_type |-> def.chord_type,
                      core_intervals |-> def.core,
                      optional_intervals |-> def.optional,
                      score |-> calculate_weighted_score(played_pcs, def.core,
                                                         def.optional)]
    /\ pc' = "done"
    /\ UNCHANGED <<CHORD_DEFINITIONS, genre, recent_chords>>
    /\ UNCHANGED trackerVars
    /\ UNCHANGED hostVars

NextRecognize == RecognizeChord \/ CalculateWeightedScore

SpecRecognize == InitRecognize /\ [][NextRecognize]_vars

----------------------------------------------------------------------------
(* The calls the log remembers: Last is the most recent one, Prev the one  *)
(* before it.                                                              *)

HasLast == Len(log) >= 1
HasPrev == Len(log) >= 2
Last == log[Len(log)]
Prev == log[Len(log) - 1]
IsNoteMsg(msg) == msg.type \in {"note_on", "note_off"}

\* C1: the changed flag a call returns is true exactly when the sounding set
\* (active_notes) after the call differs from the sounding set before it.
C1_ChangedIffSoundingDiffers ==
    HasLast => (Last.changed <=> (active_notes # Last.active))

\* a note_on with velocity 0 silenced a sounding pitch (changed), then the
\* pedal went down (not changed)
C1_Witness ==
    /\ HasPrev
    /\ Prev.msg.type = "note_on" /\ Prev.msg.velocity = 0
    /\ Prev.msg.note \in Keys /\ Prev.msg.note \in Prev.active
    /\ Prev.changed /\ Prev.msg.note \notin Last.active
    /\ IsPedalDown(Last.msg) /\ ~Last.changed /\ active_notes = Last.active

\* C2: with the pedal down, NoteOn(p) then NoteOff(p) keeps p sounding and the
\* note_off returns changed = FALSE; a PedalUp that follows removes p and
\* returns changed = TRUE, and the sounding set is then empty if it was empty
\* before the NoteOn.
C2_SustainSemantics ==
    [][\A p \in Keys :
          (/\ HasPrev
           /\ IsNoteOn(Prev.msg) /\ Prev.msg.note = p /\ Prev.pedal
           /\ IsNoteOff(Last.msg) /\ Last.msg.note = p)
          => /\ p \in active_notes
             /\ ~Last.changed
             /\ IsPedalUp(log'[Len(log')].msg)
                   => /\ p \notin active_notes'
                      /\ log'[Len(log')].changed
                      /\ (Prev.active = {} => active_notes' = {})]_vars

\* the pedal has just gone up after NoteOn(p), NoteOff(p) under the pedal on
\* an empty tracker: the note_off left p sounding, the pedal-up removed it
C2_Witness ==
    /\ HasPrev
    /\ IsNoteOff(Prev.msg) /\ Prev.msg.note \in Keys /\ Prev.pedal
    /\ Prev.active = {Prev.msg.note} /\ Prev.pending = {}
    /\ IsPedalUp(Last.msg) /\ Last.active = {Prev.msg.note}
    /\ Last.pending = {Prev.msg.note}
    /\ Last.changed /\ active_notes = {}

\* C3: a pedal-up silences exactly the pitches that were pending release
\* (sounding by pedal only) and no others, so every pitch whose key is down,
\* also one released under the pedal and pressed again, keeps sounding; and
\* changed is returned exactly when a pitch was silenced.
C3_PedalUpSilencesPedalOnly ==
    /\ (HasLast /\ IsPedalUp(Last.msg))
          => /\ active_notes = Last.active \ Last.pending
             /\ Last.changed <=> (Last.active \ active_notes # {})
    /\ (HasPrev /\ IsPedalUp(Last.msg) /\ IsNoteOn(Prev.msg))
          => Prev.msg.note \in active_notes

\* a pitch released under the pedal was pressed again, then the pedal went up
\* and silenced another pitch while the pressed one kept sounding
C3_Witness ==
    /\ HasPrev
    /\ IsNoteOn(Prev.msg) /\ Prev.msg.note \in Prev.pending
    /\ IsPedalUp(Last.msg) /\ Last.pedal
    /\ Last.pending # {} /\ Last.changed
    /\ Prev.msg.note \in active_notes
    /\ Last.pending \cap active_notes = {}

\* C4: a note_on for a pitch that is already sounding returns changed = FALSE
\* and leaves the sounding set as it was; the same NoteOn applied twice in a
\* row leaves the whole tracker state after the second call equal to the
\* state after the first.
C4_NoteOnIdempotent ==
    /\ (HasLast /\ IsNoteOn(Last.msg) /\ Last.msg.note \in Last.active)
          => (~Last.changed /\ active_notes = Last.active)
    /\ (HasPrev /\ IsNoteOn(Prev.msg) /\ IsNoteOn(Last.msg)
            /\ Last.msg.note = Prev.msg.note)
          => /\ ~Last.changed
             /\ active_notes = Last.active
             /\ sustained_notes_pending_release = Last.pending
             /\ sustain_pedal_on = Last.pedal

\* the same NoteOn came twice in a row, the first on a pitch that was sounding
\* by the pedal only
C4_Witness ==
    /\ HasPrev
    /\ IsNoteOn(Prev.msg) /\ IsNoteOn(Last.msg) /\ Last.msg = Prev.msg
    /\ ValidNote(Last.msg.note)
    /\ Prev.msg.note \in Prev.pending
    /\ ~Last.changed

\* C5: a note message whose note number is outside 0..127 is rejected with a
\* ValidationError and leaves the tracker state as it was.
C5_OutOfRangeRejected ==
    (HasLast /\ IsNoteMsg(Last.msg) /\ ~ValidNote(Last.msg.note))
        => /\ Last.raised = "ValidationError"
           /\ active_notes = Last.active
           /\ sustained_notes_pending_release = Last.pending
           /\ sustain_pedal_on = Last.pedal

----------------------------------------------------------------------------
(* The call of the recognizer the state remembers.                         *)

Recognized == pc = "done" /\ call.op = "recognize_chord"
Scored == pc = "done" /\ call.op = "calculate_weighted_score"
PitchClassesOf(S) == {n % 12 : n \in S}
EnoughNotes == Cardinality(call.played_midi_notes) >= call.min_notes_for_chord

\* C6: for every played set S and every min_notes with |S| < min_notes,
\* recognize_chord returns no match (None).
C6_TooFewNotesNoMatch ==
    (Recognized /\ Cardinality(call.played_midi_notes) < call.min_notes_for_chord)
        => call.result = None

\* one note against the default minimum of two: no match, though the note
\* alone would have matched a definition
C6_Witness ==
    /\ Recognized
    /\ Cardinality(call.played_midi_notes) = 1
    /\ call.min_notes_for_chord = DEFAULT_MIN_NOTES_FOR_CHORD
    /\ call.result = None
    /\ recognize_chord(Self, call.played_midi_notes, 0).kind = "chord"

\* the played notes are the pitch classes pcs with pitch class 0 lowest
RootPositionOf(pcs) ==
    /\ Recognized /\ EnoughNotes
    /\ call.history = <<>>
    /\ CHORD_DEFINITIONS = DEFAULT_CHORD_DEFINITIONS
    /\ PitchClassesOf(call.played_midi_notes) = pcs
    /\ SetMin(call.played_midi_notes) % 12 = 0

\* the result is chord_type on root 0, score 1.0, in root position
ExactOnRootZero(chord_type) ==
    /\ call.result.kind = "chord"
    /\ call.result.chord_type = chord_type
    /\ call.result.root_note_pc = 0
    /\ call.result.score = 1000
    /\ call.result.inversion_type = "Root Position"

\* C7: with the built-in table and empty history, the root-position triad
\* {0,4,7} is recognized as maj and {0,3,7} as min, both with root 0, score
\* exactly 1.0 and inversion 'Root Position'.
C7_MajorMinorTriads ==
    /\ RootPositionOf({0, 4, 7}) => ExactOnRootZero("maj")
    /\ RootPositionOf({0, 3, 7}) => ExactOnRootZero("min")

C7_Witness ==
    /\ RootPositionOf({0, 3, 7})
    /\ call.played_midi_notes = {60, 63, 67}
    /\ genre = "jazz"
    /\ ExactOnRootZero("min")

PlayedFirstInversion ==
    /\ Recognized /\ EnoughNotes
    /\ call.history = <<>>
    /\ CHORD_DEFINITIONS = DEFAULT_CHORD_DEFINITIONS
    /\ call.played_midi_notes = {64, 67, 72}

\* C8: the pitches 64, 67, 72 against the built-in table give root C, bass E
\* and '1st Inversion': the bass interval 4 is the second of the matched
\* definition's sorted core intervals [0, 4, 7].
C8_FirstInversion ==
    PlayedFirstInversion
        => /\ call.result.kind = "chord"
           /\ call.result.root_note_name = "C"
           /\ call.result.bass_note_name = "E"
           /\ call.result.inversion_type = "1st Inversion"
           /\ call.result.defined_intervals_core = {0, 4, 7}
           /\ Cardinality({i \in call.result.defined_intervals_core : i < 4}) = 1

C8_Witness ==
    /\ PlayedFirstInversion
    /\ call.result.kind = "chord"
    /\ call.result.full_chord_name = "Cmaj/E"
    /\ call.result.inversion_type = "1st Inversion"

\* the played notes are the core of the j-th built-in definition on root 0
PlayedCoreOf(j) ==
    /\ Recognized /\ EnoughNotes
    /\ call.history = <<>>
    /\ CHORD_DEFINITIONS = DEFAULT_CHORD_DEFINITIONS
    /\ call.played_midi_notes = CoreAtLowestKey(j)

BuiltIn == 1..Len(DEFAULT_CHORD_DEFINITIONS)

\* the definitions whose core is recognized as themselves
RoundTripTypes ==
    {"maj", "maj7", "majb5", "min", "minMaj7", "sus4", "sus2", "7sus4", "dim",
     "aug", "5"}
       \cup (IF genre = "jazz" THEN {"7#5"} ELSE {"7", "dim7", "7b5"})

\* C9 as stated: for every built-in definition, recognizing exactly its core
\* on root 0 with empty history returns that definition's identifier, with a
\* score of at least 0.6.
C9_RoundTripEveryTemplate ==
    \A j \in BuiltIn :
        PlayedCoreOf(j)
            => /\ call.result.kind = "chord"
               /\ call.result.chord_type = DEFAULT_CHORD_DEFINITIONS[j].chord_type
               /\ call.result.score >= 600

\* C9, amended: for every built-in definition, recognizing exactly its core
\* on root 0 with empty history returns a match with a score of at least 0.6;
\* the match is that definition's identifier exactly for maj, maj7, majb5,
\* min, minMaj7, sus4, sus2, 7sus4, dim, aug and 5, for 7#5 in genre jazz,
\* and for 7, dim7 and 7b5 in any other genre.
C9_RoundTripWhereUnambiguous ==
    \A j \in BuiltIn :
        PlayedCoreOf(j)
            => /\ call.result.kind = "chord"
               /\ call.result.score >= 600
               /\ (call.result.chord_type = DEFAULT_CHORD_DEFINITIONS[j].chord_type)
                     <=> (DEFAULT_CHORD_DEFINITIONS[j].chord_type \in RoundTripTypes)

\* the core of min7 in jazz: a match, but another definition's
C9_Witness ==
    \E j \in BuiltIn :
        /\ PlayedCoreOf(j)
        /\ genre = "jazz"
        /\ DEFAULT_CHORD_DEFINITIONS[j].chord_type = "min7"
        /\ call.result.kind = "chord"
        /\ call.result.chord_type = "7#9"
        /\ call.result.score >= 600

\* a core interval of the scored definition is missing from the played set
CoreMissing == ~(call.core_intervals \subseteq call.played_pcs)

\* C10 as stated: scored against the dominant 13th (core {0,4,10}, more than
\* 3 defined intervals in all), {0,2,10} scores 0; in general a definition
\* of more than 3 defined intervals scores 0 whenever a core interval is
\* missing.
C10_ExtendedNeedsCore ==
    (/\ Scored
     /\ Cardinality(call.core_intervals \cup call.optional_intervals) > 3
     /\ CoreMissing)
        => call.score.num = 0

\* C10, amended: a definition of more than 3 core intervals scores 0
\* whenever a core interval is missing from the played set, however many
\* optional intervals are present; the dominant 13th has 3 core intervals
\* and scores {0,2,10} above 0.
C10_LargeCoreNeedsCore ==
    /\ (Scored /\ Cardinality(call.core_intervals) > 3 /\ CoreMissing)
          => call.score.num = 0
    /\ (Scored /\ call.chord_type = "13" /\ call.played_pcs = {0, 2, 10})
          => /\ call.core_intervals = {0, 4, 10}
             /\ call.score.num > 0

\* a definition of 4 core intervals, two of them and an optional one played
C10_Witness ==
    /\ Scored
    /\ Cardinality(call.core_intervals) > 3
    /\ CoreMissing
    /\ Cardinality(call.played_pcs \cap call.core_intervals) = 2
    /\ call.played_pcs \cap call.optional_intervals # {}
    /\ call.score.num = 0

\* the instance as it was when the remembered recognize_chord call began
SelfBefore ==
    [CHORD_DEFINITIONS |-> CHORD_DEFINITIONS, genre |-> genre,
     recent_chords |-> call.history]

\* the final score of the j-th definition on root r for the pitch classes pcs
CandidateScore(self, pcs, r, j) ==
    adjust_score_for_context(self, self.CHORD_DEFINITIONS[j].chord_type,
        calculate_weighted_score({(p - r + 12) % 12 : p \in pcs},
                                 self.CHORD_DEFINITIONS[j].core,
                                 self.CHORD_DEFINITIONS[j].optional))

\* some root and definition reach a final score of 0.6
SomeCandidateReaches06(self, pcs) ==
    \E r \in 0..11, j \in 1..Len(self.CHORD_DEFINITIONS) :
        ~Lt(CandidateScore(self, pcs, r, j), Frac(6, 10))

\* C11: recognize_chord returns a result if and only if |S| >= min_notes and
\* the best final score over the 12 roots and all definitions is at least
\* 0.6; every returned result carries a score >= 0.6, and when the best
\* score is below 0.6 no result is returned.
C11_ThresholdDecides ==
    Recognized =>
        LET reaches == SomeCandidateReaches06(SelfBefore,
                           PitchClassesOf(call.played_midi_notes))
        IN  /\ (call.result.kind = "chord") <=> (EnoughNotes /\ reaches)
            /\ (call.result.kind = "chord") => (call.result.score >= 600)
            /\ ~reaches => (call.result.kind # "chord")

\* enough notes, but no candidate reaches 0.6: no match
C11_Witness ==
    /\ Recognized /\ EnoughNotes
    /\ Cardinality(call.played_midi_notes) = 2
    /\ ~SomeCandidateReaches06(SelfBefore, PitchClassesOf(call.played_midi_notes))
    /\ call.result = None

\* C12: the score of every result recognize_chord returns lies in [0, 1].
C12_ScoreInUnitInterval ==
    (Recognized /\ call.result.kind = "chord")
        => (0 <= call.result.score /\ call.result.score <= 1000)

\* C17: recognize_chord never raises: for every played set, the empty one
\* included, and every min_notes, 0 included, it returns no match or a result.
C17_NeverRaises ==
    Recognized => call.result.kind \in {"None", "chord"}

----------------------------------------------------------------------------
(* A run of recognize_chord calls on one ChordTheory instance: each call   *)
(* reads the recent_chords the calls before it left.                       *)

\* the largest number of recognize_chord calls made on the instance
MaxCalls == 5

\* the sets played in the run: G A A# D F (a minor ninth on G), C E F A#,
\* E G# D (a seventh chord on E), and the single note C
SessionSets == {{67, 69, 70, 74, 77}, {60, 64, 65, 70}, {64, 68, 74}, {60}}

\* self.recognize_chord(played_midi_notes, DEFAULT_MIN_NOTES_FOR_CHORD), any
\* number of calls having been made before
RecognizeNext ==
    /\ Len(results) < MaxCalls
    /\ \E played_midi_notes \in SessionSets :
          call' = [op |-> "recognize_chord",
                   played_midi_notes |-> played_midi_notes,
                   min_notes_for_chord |-> DEFAULT_MIN_NOTES_FOR_CHORD,
                   history |-> recent_chords,
                   result |-> recognize_chord(Self, played_midi_notes,
                                              DEFAULT_MIN_NOTES_FOR_CHORD)]
    /\ recent_chords' = RecentAfter(recent_chords, call'.result)
    /\ results' = Append(results, call'.result)
    /\ pc' = "done"
    /\ UNCHANGED <<CHORD_DEFINITIONS, genre>>
    /\ UNCHANGED trackerVars
    /\ UNCHANGED <<sink, sessions, engine>>

NextSession == RecognizeNext

SpecSession == InitRecognize /\ [][NextSession]_vars

\* the chord types the table describes as "Dominant ..."
DominantNamed ==
    {"7", "9", "11", "13", "7#5", "7b9", "7#9", "7b13", "7#5b9", "9#5", "7sus4", "7b5"}

\* the instance as it would be with no call made on it
SelfFresh ==
    [CHORD_DEFINITIONS |-> CHORD_DEFINITIONS, genre |-> genre, recent_chords |-> <<>>]

\* the call recognized a dominant chord, the last chord recognized before it
\* being a minor seventh chord on the fifth above the dominant's root
DominantAfterMinorSeventh ==
    /\ Recognized
    /\ call.result.kind = "chord"
    /\ call.result.chord_type \in DominantNamed
    /\ call.history # <<>>
    /\ call.history[Len(call.history)].chord_type \in MinorSeventhTypes
    /\ call.history[Len(call.history)].root_note_pc
          = (call.result.root_note_pc + 7) % 12

\* C13: a dominant chord recognized right after a minor seventh chord a
\* perfect fifth above its root has a strictly higher score than the same
\* dominant chord recognized, from the same notes, with an empty history.
C13_HistoryBoost ==
    DominantAfterMinorSeventh =>
        LET alone == recognize_chord(SelfFresh, call.played_midi_notes,
                                     call.min_notes_for_chord)
        IN  (/\ alone.kind = "chord"
             /\ alone.chord_type = call.result.chord_type
             /\ alone.root_note_pc = call.result.root_note_pc)
                => call.result.score > alone.score

\* the results of the calls that recognized a chord, in the order returned
Successful == SelectSeq(results, LAMBDA r : r.kind = "chord")

LastUpTo(s, n) == IF Len(s) <= n THEN s ELSE SubSeq(s, Len(s) - n + 1, Len(s))

\* C15: recent_chords never holds more than 3 entries; they are the latest
\* results that recognized a chord, oldest first, so the oldest one is what
\* leaves when a fourth arrives; a call that recognizes nothing leaves
\* recent_chords as it was.
C15_RollingHistory ==
    /\ Len(recent_chords) <= 3
    /\ recent_chords = LastUpTo(Successful, 3)
    /\ (Recognized /\ call.result.kind # "chord") => recent_chords = call.history

C15_Witness ==
    /\ Len(Successful) = 4
    /\ Len(results) = 5
    /\ Len(recent_chords) = 3
    /\ recent_chords[1] = Successful[2]
    /\ Successful[1] # Successful[2]

----------------------------------------------------------------------------
(* The MIDI handler thread of the engine: each received message goes to    *)
(* _process_midi_message and, when that reports a change, to               *)
(* _update_chord_and_publish.                                              *)

\* ChordTheory.recognize_chord(...) called on the class: recognize_chord is
\* an instance method, so the first argument is taken for self, and with
\* fewer than three arguments min_notes_for_chord is missing
recognize_chord_on_class(args) ==
    IF Len(args) < 3 THEN Raised("TypeError")
    ELSE recognize_chord(args[1], args[2], args[3])

\* publish_data: the "N.C." record, updated with chord_info if there is one
PublishData(chord_info, notes) ==
    IF chord_info.kind = "chord"
    THEN [full_chord_name |-> chord_info.full_chord_name,
          played_notes_midi |-> notes,
          bass_note_name |-> chord_info.bass_note_name,
          score |-> chord_info.score]
    ELSE [full_chord_name |-> "N.C.",
          played_notes_midi |-> notes,
          bass_note_name |-> IF notes = {} THEN "None"
                             ELSE midi_to_pitch_class_name(SetMin(notes)),
          score |-> 0]

\* _update_chord_and_publish: what update_callback has received after it,
\* and the exception it raised ("none": it returned)
update_chord_and_publish(received, notes, min_notes) ==
    LET chord_info == recognize_chord_on_class(<<notes, min_notes>>)
    IN  IF chord_info.kind \notin {"None", "chord"}
        THEN [raised |-> chord_info.kind, sink |-> received]
        ELSE [raised |-> "none",
              sink |-> Append(received, PublishData(chord_info, notes))]

\* one turn of the loop of _midi_handler on the received message msg; the
\* loop catches and logs what the turn raises
MidiHandler(msg) ==
    LET st == TrackerState
        r == ProcessMidiMessage(st, msg)
        u == IF r.changed
             THEN update_chord_and_publish(sink, r.active, DEFAULT_MIN_NOTES_FOR_CHORD)
             ELSE [raised |-> "none", sink |-> sink]
    IN  /\ active_notes' = r.active
        /\ sustained_notes_pending_release' = r.pending
        /\ sustain_pedal_on' = r.pedal
        /\ log' = Append1(log, [LogEntry(st, msg, r) EXCEPT !.raised = u.raised])
        /\ sink' = u.sink
        /\ UNCHANGED theoryVars
        /\ UNCHANGED <<results, sessions, engine>>

NextEngine == \E msg \in Messages : MidiHandler(msg)

SpecEngine == Init /\ [][NextEngine]_vars

\* the label of a sounding set: the name of the chord recognize_chord finds
\* in it, "N.C." if it finds none
Label(notes) ==
    LET r == recognize_chord(Self, notes, DEFAULT_MIN_NOTES_FOR_CHORD)
    IN  IF r.kind = "chord" THEN r.full_chord_name ELSE "N.C."

\* C14: a turn of the handler hands a result to the sink exactly when the
\* label of the sounding set after the turn differs from the label before
\* it, and no two consecutive deliveries carry the same label.
C14_DeliversOnLabelChange ==
    [][log' # log =>
         /\ (sink' # sink) <=> (Label(active_notes') # Label(active_notes))
         /\ Len(sink') >= 2 =>
               sink'[Len(sink')].full_chord_name
                   # sink'[Len(sink') - 1].full_chord_name]_vars

----------------------------------------------------------------------------
(* The chord definition file and ChordTheory.load_chord_definitions, and   *)
(* the MIDIChordRecognizer objects of one process, which all read the one  *)
(* class attribute ChordTheory.CHORD_DEFINITIONS.                          *)

\* the largest number of entries of a chord definition file
MaxEntries == 2
\* the largest number of MIDIChordRecognizer objects made
MaxSessions == 2

\* JSON numbers (a float is kept in tenths), and a JSON string or null
JInt(n) == [type |-> "int", value |-> n]
JFloat(tenths) == [type |-> "float", value |-> tenths]
JStr == [type |-> "str"]
JNull == [type |-> "null"]

\* "chord_type": {"name": ..., "core_intervals": [...], "optional_intervals": [...]}
JEntry(chord_type, name, core_intervals, optional_intervals) ==
    [chord_type |-> chord_type,
     data |-> [type |-> "object", name |-> name,
               core_intervals |-> core_intervals,
               optional_intervals |-> optional_intervals]]

\* the entries a file is made of: a major triad; offsets 16 and -3; the
\* offset 4.5; no name; an array where the object should be
EntryList ==
    << JEntry("maj", JStr, <<JInt(0), JInt(4), JInt(7)>>, <<>>),
       JEntry("wide", JStr, <<JInt(0), JInt(16)>>, <<JInt(-3)>>),
       JEntry("frac", JStr, <<JInt(0), JFloat(45)>>, <<>>),
       JEntry("anon", JNull, <<JInt(0), JInt(3), JInt(7)>>, <<>>),
       [chord_type |-> "list", data |-> [type |-> "array"]] >>

\* the entries of EntryList whose index is in I, in the order of EntryList
EntriesAt(I) ==
    [k \in 1..Cardinality(I) |->
        EntryList[CHOOSE i \in I : Cardinality({j \in I : j < i}) = k - 1]]

\* what is found at config_path: no file, a file that is not JSON, or a JSON
\* object of at most MaxEntries entries
Files ==
    {[kind |-> "missing"], [kind |-> "undecodable"]}
      \cup {[kind |-> "json", entries |-> EntriesAt(I)] :
                I \in {J \in SUBSET (1..Len(EntryList)) : Cardinality(J) <= MaxEntries}}

AllInt(list) == \A k \in 1..Len(list) : list[k].type = "int"

\* the test load_chord_definitions makes of one entry
ValidEntry(entry) ==
    /\ AllInt(entry.data.core_intervals)
    /\ AllInt(entry.data.optional_intervals)
    /\ entry.data.name.type = "str"

\* loaded_definitions[chord_type] = (name, {'core': frozenset(...), 'optional': frozenset(...)})
Loaded(entry) ==
    Template(entry.chord_type,
             {entry.data.core_intervals[k].value :
                  k \in 1..Len(entry.data.core_intervals)},
             {entry.data.optional_intervals[k].value :
                  k \in 1..Len(entry.data.optional_intervals)})

\* loaded_definitions after the loop over the entries lo..hi
LoadedFrom(entries, lo, hi) ==
    [k \in 1..Cardinality({i \in lo..hi : ValidEntry(entries[i])}) |->
        Loaded(entries[CHOOSE i \in lo..hi :
                          /\ ValidEntry(entries[i])
                          /\ Cardinality({j \in lo..i : ValidEntry(entries[j])}) = k])]

\* cls.CHORD_DEFINITIONS after load_chord_definitions(config_path), table
\* being cls.CHORD_DEFINITIONS before it: a missing file returns at once, a
\* file that is not JSON raises JSONDecodeError, an entry that is no object
\* raises AttributeError at data.get, and both are caught and logged
load_chord_definitions(table, file) ==
    IF file.kind = "missing" THEN table
    ELSE IF file.kind = "undecodable" THEN table
    ELSE IF \E i \in 1..Len(file.entries) : file.entries[i].data.type # "object"
         THEN table
    ELSE LET loaded_definitions == LoadedFrom(file.entries, 1, Len(file.entries))
         IN  IF loaded_definitions # <<>> THEN loaded_definitions ELSE table

\* MIDIChordRecognizer.__init__: the fields of the new object
NewSession ==
    [running |-> FALSE, active_notes |-> {}, sustain_pedal_on |-> FALSE,
     sustained_notes_pending_release |-> {}, received |-> <<>>]

\* _cleanup: the tracker fields of the object cleared
Cleanup(session) ==
    [session EXCEPT !.active_notes = {}, !.sustain_pedal_on = FALSE,
                    !.sustained_notes_pending_release = {}]

\* the note messages a session receives: the lowest key pressed and released
SessionMessages == {NoteOnMsg(LowestKey, 64), NoteOffMsg(LowestKey)}

\* ChordTheory.load_chord_definitions(config_path), called by the host
LoadChordDefinitions ==
    /\ \E file \in Files :
          /\ CHORD_DEFINITIONS' = load_chord_definitions(CHORD_DEFINITIONS, file)
          /\ call' = [op |-> "load_chord_definitions", session |-> 0,
                      file |-> file, before |-> CHORD_DEFINITIONS]
    /\ UNCHANGED <<genre, recent_chords, pc>>
    /\ UNCHANGED trackerVars
    /\ UNCHANGED hostVars

\* MIDIChordRecognizer(chord_config_path=...): the new object's fields, then
\* ChordTheory.load_chord_definitions(self.chord_config_path)
Construct ==
    /\ Len(sessions) < MaxSessions
    /\ \E file \in Files :
          /\ CHORD_DEFINITIONS' = load_chord_definitions(CHORD_DEFINITIONS, file)
          /\ call' = [op |-> "__init__", session |-> Len(sessions) + 1,
                      file |-> file, before |-> CHORD_DEFINITIONS]
    /\ sessions' = Append(sessions, NewSession)
    /\ UNCHANGED <<genre, recent_chords, pc>>
    /\ UNCHANGED trackerVars
    /\ UNCHANGED <<results, sink, engine>>

\* start(), the MIDI port and the socket opened
SessionStart(s) ==
    /\ ~sessions[s].running
    /\ sessions' = [sessions EXCEPT ![s].running = TRUE]
    /\ call' = [op |-> "start", session |-> s]
    /\ UNCHANGED <<CHORD_DEFINITIONS, genre, recent_chords, pc>>
    /\ UNCHANGED trackerVars
    /\ UNCHANGED <<results, sink, engine>>

\* one turn of the loop of _midi_handler of the object s
SessionHandle(s, msg) ==
    LET me == sessions[s]
        st == [active |-> me.active_notes,
               pending |-> me.sustained_notes_pending_release,
               pedal |-> me.sustain_pedal_on]
        r == ProcessMidiMessage(st, msg)
        u == IF r.changed
             THEN update_chord_and_publish(me.received, r.active,
                                           DEFAULT_MIN_NOTES_FOR_CHORD)
             ELSE [raised |-> "none", sink |-> me.received]
    IN  /\ me.running
        /\ sessions' = [sessions EXCEPT ![s] =
                           [running |-> TRUE, active_notes |-> r.active,
                            sustain_pedal_on |-> r.pedal,
                            sustained_notes_pending_release |-> r.pending,
                            received |-> u.sink]]
        /\ call' = [op |-> "_midi_handler", session |-> s]
        /\ UNCHANGED <<CHORD_DEFINITIONS, genre, recent_chords, pc>>
        /\ UNCHANGED trackerVars
        /\ UNCHANGED <<results, sink, engine>>

\* stop(): running cleared, the thread joined, then _cleanup
SessionStop(s) ==
    /\ sessions[s].running
    /\ sessions' = [sessions EXCEPT ![s] = Cleanup([@ EXCEPT !.running = FALSE])]
    /\ call' = [op |-> "stop", session |-> s]
    /\ UNCHANGED <<CHORD_DEFINITIONS, genre, recent_chords, pc>>
    /\ UNCHANGED trackerVars
    /\ UNCHANGED <<results, sink, engine>>

NextHost ==
    \/ LoadChordDefinitions
    \/ Construct
    \/ \E s \in 1..Len(sessions) : SessionStart(s)
    \/ \E s \in 1..Len(sessions), msg \in SessionMessages : SessionHandle(s, msg)
    \/ \E s \in 1..Len(sessions) : SessionStop(s)

SpecHost == Init /\ [][NextHost]_vars

\* the last operation read a chord definition file
Loads == call.op \in {"load_chord_definitions", "__init__"}

\* an entry as it has to be: an object with a name and integer offsets, all
\* of them in 0..11
WellFormedEntry(entry) ==
    /\ entry.data.type = "object"
    /\ entry.data.name.type = "str"
    /\ \A k \in 1..Len(entry.data.core_intervals) :
          /\ entry.data.core_intervals[k].type = "int"
          /\ entry.data.core_intervals[k].value \in 0..11
    /\ \A k \in 1..Len(entry.data.optional_intervals) :
          /\ entry.data.optional_intervals[k].type = "int"
          /\ entry.data.optional_intervals[k].value \in 0..11

\* C18: after a load the table holds no entry the load had to reject, so no
\* template with an offset outside 0..11, and it holds the file's valid
\* entries, each malformed entry having been rejected by itself.
C18_MalformedEntriesRejected ==
    (Loads /\ call.file.kind = "json") =>
        /\ \A j \in 1..Len(CHORD_DEFINITIONS) :
              CHORD_DEFINITIONS[j].core \cup CHORD_DEFINITIONS[j].optional
                  \subseteq 0..11
        /\ \A i \in 1..Len(call.file.entries) :
              WellFormedEntry(call.file.entries[i])
                 => \E j \in 1..Len(CHORD_DEFINITIONS) :
                       CHORD_DEFINITIONS[j].chord_type
                           = call.file.entries[i].chord_type

\* the file gives the table no entry: it is missing or unreadable, or the
\* load rejects every entry of it
NoValidEntry(file) ==
    \/ file.kind # "json"
    \/ \A i \in 1..Len(file.entries) :
          \/ file.entries[i].data.type # "object"
          \/ ~ValidEntry(file.entries[i])

\* C19: when the latest load found no valid entry, the table in effect is
\* the built-in table, whatever an earlier load installed.
C19_FallsBackToDefault ==
    (Loads /\ NoValidEntry(call.file)) => CHORD_DEFINITIONS = DEFAULT_CHORD_DEFINITIONS

\* C20: an operation on one MIDIChordRecognizer changes neither the fields
\* of another one nor the table the other one reads.
C20_SessionsIsolated ==
    [][\A s \in 1..Len(sessions) :
          (call' # call /\ call'.session \notin {0, s})
              => /\ sessions'[s] = sessions[s]
                 /\ CHORD_DEFINITIONS' = CHORD_DEFINITIONS]_vars

----------------------------------------------------------------------------
(* The tracker under messages and _cleanup.                                *)

\* _cleanup: the last lines of it, which clear the tracker; the log of the
\* calls made on the tracker starts anew
CleanupTracker ==
    /\ active_notes' = {}
    /\ sustained_notes_pending_release' = {}
    /\ sustain_pedal_on' = FALSE
    /\ log' = <<>>
    /\ UNCHANGED theoryVars
    /\ UNCHANGED hostVars

NextTracker ==
    \/ \E msg \in Messages : Process(msg)
    \/ CleanupTracker

SpecTracker == Init /\ [][NextTracker]_vars

Silent(n) == n \notin active_notes /\ n \notin sustained_notes_pending_release
SoundingByKey(n) == n \in active_notes /\ n \notin sustained_notes_pending_release
SoundingByPedalOnly(n) == n \in active_notes /\ n \in sustained_notes_pending_release

\* C21: every pitch is silent, sounding by its key or sounding by the pedal
\* only, and exactly one of the three: the pending set is within the active
\* set, and it is empty while the pedal is up.
C21_PitchStates ==
    /\ \A n \in NoteValues \cup active_notes \cup sustained_notes_pending_release :
          Cardinality({c \in {"Silent", "SoundingByKey", "SoundingByPedalOnly"} :
                          \/ c = "Silent" /\ Silent(n)
                          \/ c = "SoundingByKey" /\ SoundingByKey(n)
                          \/ c = "SoundingByPedalOnly" /\ SoundingByPedalOnly(n)}) = 1
    /\ sustained_notes_pending_release \subseteq active_notes
    /\ ~sustain_pedal_on => sustained_notes_pending_release = {}

C21_Witness ==
    /\ sustain_pedal_on
    /\ \E n \in active_notes : SoundingByPedalOnly(n)
    /\ \E n \in active_notes : SoundingByKey(n)
    /\ HasLast /\ IsNoteOff(Last.msg) /\ Last.pending = {}

----------------------------------------------------------------------------
(* The candidate recognize_chord selects, worked out apart from the loop.  *)

\* the candidates: root r and the j-th definition of the table, in the
\* order of the loops
Candidates(self) == (0..11) \X (1..Len(self.CHORD_DEFINITIONS))
Earlier(c, d) == c[1] < d[1] \/ (c[1] = d[1] /\ c[2] < d[2])

\* ten times the strength of candidate c counted on the core offsets: the
\* matched core offsets + 0.1 x the core offsets
CoreStrength(self, pcs, c) ==
    LET def == self.CHORD_DEFINITIONS[c[2]]
        rel == {(p - c[1] + 12) % 12 : p \in pcs}
    IN  10 * Cardinality(rel \cap def.core) + Cardinality(def.core)

\* ten times the strength counted on all the defined offsets: the matched
\* offsets + 0.1 x the defined offsets, core and optional
TotalStrength(self, pcs, c) ==
    LET def == self.CHORD_DEFINITIONS[c[2]]
        rel == {(p - c[1] + 12) % 12 : p \in pcs}
    IN  10 * Cardinality(rel \cap (def.core \cup def.optional))
          + Cardinality(def.core \cup def.optional)

\* the call selected the candidate c
Selected(self, c) ==
    /\ call.result.root_note_pc = c[1]
    /\ call.result.chord_type = self.CHORD_DEFINITIONS[c[2]].chord_type

\* candidate c is the first, in loop order, of the candidates with the
\* maximum final score and, among them, the maximum of the strengths str:
\* no candidate has more, and c has more than every candidate before it
FirstBest(self, pcs, c, str) ==
    LET mine == CandidateScore(self, pcs, c[1], c[2])
    IN  \A d \in Candidates(self) :
          LET theirs == CandidateScore(self, pcs, d[1], d[2])
          IN  /\ ~Gt(theirs, mine)
              /\ Eq(theirs, mine) => str[d] <= str[c]
              /\ (Earlier(d, c) /\ Eq(theirs, mine)) => str[d] < str[c]

\* C22 as stated: the selected candidate is the first, in loop order, of
\* those with the maximum final score and, among them, the maximum
\* strength, the strength counting the matched offsets and the defined
\* offsets of the template.
C22_FirstBestByDefinedOffsets ==
    (Recognized /\ call.result.kind = "chord") =>
        LET self == SelfBefore
            pcs == PitchClassesOf(call.played_midi_notes)
        IN  \E c \in Candidates(self) :
              /\ Selected(self, c)
              /\ FirstBest(self, pcs, c,
                           [d \in Candidates(self) |-> TotalStrength(self, pcs, d)])

\* C22, amended: the same with the strength counted on the core offsets
\* alone: the matched core offsets + 0.1 x the core offsets.
C22_FirstBestByCoreOffsets ==
    (Recognized /\ call.result.kind = "chord") =>
        LET self == SelfBefore
            pcs == PitchClassesOf(call.played_midi_notes)
        IN  \E c \in Candidates(self) :
              /\ Selected(self, c)
              /\ FirstBest(self, pcs, c,
                           [d \in Candidates(self) |-> CoreStrength(self, pcs, d)])

\* on C C# G G# A# B the power chord on C (definition 40) comes first and
\* the major flat five on G (definition 10), with the same score and three
\* core offsets matched for two, replaces it
C22_Witness ==
    /\ Recognized
    /\ call.played_midi_notes = TiedSet
    /\ EnoughNotes
    /\ call.result.kind = "chord"
    /\ call.result.chord_type = "majb5"
    /\ call.result.root_note_pc = 7
    /\ Eq(CandidateScore(SelfBefore, PitchClassesOf(TiedSet), 0, 40),
          CandidateScore(SelfBefore, PitchClassesOf(TiedSet), 7, 10))

\* the index in the table of the definition the call selected
SelectedIndex ==
    CHOOSE j \in 1..Len(CHORD_DEFINITIONS) :
        CHORD_DEFINITIONS[j].chord_type = call.result.chord_type

\* the history raised the score of the candidate the call selected
HistoryBoosted ==
    LET pcs == PitchClassesOf(call.played_midi_notes)
    IN  Gt(CandidateScore(SelfBefore, pcs, call.result.root_note_pc, SelectedIndex),
           CandidateScore(SelfFresh, pcs, call.result.root_note_pc, SelectedIndex))

\* C23: the history raises the score of a candidate only if the last chord
\* of the history is a minor seventh chord and the candidate a dominant
\* chord whose root is a fifth away from that chord's root.
C23_BoostOnlyAFifthAway ==
    (Recognized /\ call.result.kind = "chord" /\ HistoryBoosted) =>
        /\ call.history # <<>>
        /\ call.history[Len(call.history)].chord_type \in MinorSeventhTypes
        /\ call.result.chord_type \in DominantNamed
        /\ (call.result.root_note_pc
               - call.history[Len(call.history)].root_note_pc + 12) % 12 \in {5, 7}

\* the offset of the bass, the pitch class of the lowest played note, from
\* the root of the result
BassOffset ==
    ((SetMin(call.played_midi_notes) % 12) - call.result.root_note_pc + 12) % 12

\* the place of the bass offset among the sorted core offsets, counted from 0
BassIndex == Cardinality({i \in call.result.defined_intervals_core : i < BassOffset})

\* C24: the inversion label of a result is 'Root Position' exactly when the
\* bass pitch class is the root; else, the bass offset being a core offset,
\* place 1, 2, 3 among the sorted core offsets gives '1st', '2nd', '3rd
\* Inversion' and any other place the generic label; else the result is a
\* slash chord, 'bass is extension' exactly when the offset is an optional
\* offset of the template, 'bass not a core tone' otherwise.
C24_InversionLabel ==
    (Recognized /\ call.result.kind = "chord") =>
        LET text == call.result.inversion_type
            core == call.result.defined_intervals_core
            optional == call.result.defined_intervals_optional
        IN  /\ call.result.bass_note_pc = SetMin(call.played_midi_notes) % 12
            /\ (text = "Root Position") <=> (BassOffset = 0)
            /\ (BassOffset # 0 /\ BassOffset \in core) =>
                  /\ (BassIndex = 1) => text = "1st Inversion"
                  /\ (BassIndex = 2) => text = "2nd Inversion"
                  /\ (BassIndex = 3) => text = "3rd Inversion"
                  /\ (BassIndex \notin {1, 2, 3}) =>
                        text = "Inversion (bass is " \o ToString(BassIndex + 1)
                                   \o "th tone)"
            /\ (BassOffset # 0 /\ BassOffset \notin core) =>
                  /\ text \in {"Slash Chord (bass is extension)",
                               "Slash Chord (bass not a core tone)"}
                  /\ (text = "Slash Chord (bass is extension)")
                        <=> (BassOffset \in optional)

C24_Witness ==
    /\ Recognized
    /\ call.result.kind = "chord"
    /\ BassOffset # 0
    /\ BassOffset \notin call.result.defined_intervals_core
    /\ BassOffset \in call.result.defined_intervals_optional
    /\ call.result.inversion_type = "Slash Chord (bass is extension)"

\* the fourth of four core offsets in the bass
C24_ThirdInversionReached ==
    /\ Recognized
    /\ call.played_midi_notes = SeventhOnBassSet
    /\ call.result.kind = "chord"
    /\ BassIndex = 3
    /\ call.result.inversion_type = "3rd Inversion"

\* ---------------------------------------------------------------------
\* The threads of one MIDIChordRecognizer: the MIDI handler thread, the
\* thread that calls stop(), and the port that messages arrive at.  engine
\* holds the running flag, the port's queue, the handler's position in its
\* loop with the message in its hand, and stop()'s position.  The blocks
\* under self.lock are the steps HandlerProcess..HandlerUpdate of the
\* handler and StopBegin and StopCleanup of stop().
\* ---------------------------------------------------------------------

\* the number of messages that arrive at the port
MaxEvents == 3

\* the messages that arrive: one key pressed and released, the pedal
ThreadMessages ==
    {NoteOnMsg(LowestKey, 64), NoteOffMsg(LowestKey),
     ControlMsg(64, 64), ControlMsg(64, 0)}

\* self.lock is held by the handler between _process_midi_message and the
\* end of _update_chord_and_publish
LockHeld == engine.handler = "update"

\* `if self._process_midi_message(msg): self._update_chord_and_publish()`
\* with recognition run on every message
UpdatesAfter_Always(changed) == TRUE

\* `if self._process_midi_message(msg): self._update_chord_and_publish()`
UpdatesAfter(changed) == changed

\* `except Exception` of the handler's loop, with the loop left
AfterException_Ends(running) == "exited"

\* `except Exception` of the handler's loop: logged while running, and the
\* loop goes on with its next turn
AfterException(running) == "loop"

\* start(): running set, the handler thread started on the opened port
Start ==
    /\ engine.handler = "none"
    /\ ~engine.running
    /\ engine' = [engine EXCEPT !.running = TRUE, !.handler = "loop"]
    /\ UNCHANGED <<trackerVars, theoryVars, results, sink, sessions>>

\* a message arrives at the open port
Arrive(msg) ==
    /\ engine.handler # "none"
    /\ ~engine.closed
    /\ Len(engine.arrived) < MaxEvents
    /\ engine' = [engine EXCEPT !.port = Append(@, msg),
                                !.arrived = Append(@, msg)]
    /\ UNCHANGED <<trackerVars, theoryVars, results, sink, sessions>>

\* `while self.running:`
HandlerLoop ==
    /\ engine.handler = "loop"
    /\ engine' = [engine EXCEPT
                     !.handler = IF engine.running THEN "receive" ELSE "exited"]
    /\ UNCHANGED <<trackerVars, theoryVars, results, sink, sessions>>

\* `msg = self.midi_port.receive(block=True)`: the oldest message of the
\* port; on a closed port it may raise instead, which the loop catches
HandlerReceive ==
    /\ engine.handler = "receive"
    /\ \/ /\ engine.port # <<>>
          /\ engine' = [engine EXCEPT !.msg = Head(engine.port),
                                      !.port = Tail(engine.port),
                                      !.handler = "check"]
       \/ /\ engine.closed
          /\ engine' = [engine EXCEPT !.handler = AfterException(engine.running)]
    /\ UNCHANGED <<trackerVars, theoryVars, results, sink, sessions>>

\* `if not self.running: break`
HandlerCheck ==
    /\ engine.handler = "check"
    /\ engine' = [engine EXCEPT
                     !.handler = IF engine.running THEN "process" ELSE "exited",
                     !.msg = IF engine.running THEN @ ELSE NoMsg]
    /\ UNCHANGED <<trackerVars, theoryVars, results, sink, sessions>>

\* `with self.lock: if self._process_midi_message(msg):`
HandlerProcess ==
    /\ engine.handler = "process"
    /\ LET r == ProcessMidiMessage(TrackerState, engine.msg)
       IN  /\ active_notes' = r.active
           /\ sustained_notes_pending_release' = r.pending
           /\ sustain_pedal_on' = r.pedal
           /\ engine' = [engine EXCEPT
                 !.handler = IF UpdatesAfter(r.changed) THEN "update" ELSE "loop",
                 !.msg = NoMsg,
                 !.applied = Append(@, [msg |-> engine.msg, changed |-> r.changed,
                                        running |-> engine.running,
                                        attempts |-> 0, raised |-> "none"])]
    /\ UNCHANGED <<log, theoryVars, results, sink, sessions>>

\* `self._update_chord_and_publish()` still under the lock: the recognition
\* on the sounding set, the payload handed over unless it raised
HandlerUpdate ==
    /\ engine.handler = "update"
    /\ \E u \in {update_chord_and_publish(sink, active_notes,
                                           DEFAULT_MIN_NOTES_FOR_CHORD)} :
          LET k == Len(engine.applied)
          IN  /\ sink' = u.sink
              /\ engine' = [engine EXCEPT
                    !.handler = IF u.raised = "none" THEN "loop"
                                ELSE AfterException(engine.running),
                    !.applied[k].attempts = @ + 1,
                    !.applied[k].raised = u.raised]
    /\ UNCHANGED <<trackerVars, theoryVars, results, sessions>>

\* stop(), its first block under the lock: `self.running = False`
StopBegin ==
    /\ engine.stop = "idle"
    /\ engine.running
    /\ ~LockHeld
    /\ engine' = [engine EXCEPT !.running = FALSE, !.stop = "close"]
    /\ UNCHANGED <<trackerVars, theoryVars, results, sink, sessions>>

\* stop(): `self.midi_port.close()` if the handler thread is alive
StopClose ==
    /\ engine.stop = "close"
    /\ engine' = [engine EXCEPT
                     !.closed = (engine.handler # "exited") \/ @,
                     !.stop = "join"]
    /\ UNCHANGED <<trackerVars, theoryVars, results, sink, sessions>>

\* stop(): `self.midi_thread.join(timeout=2.0)` returns, the handler ended
\* or the two seconds over
StopJoin ==
    /\ engine.stop = "join"
    /\ engine' = [engine EXCEPT !.stop = "cleanup"]
    /\ UNCHANGED <<trackerVars, theoryVars, results, sink, sessions>>

\* stop(), its last block under the lock: _cleanup()
StopCleanup ==
    /\ engine.stop = "cleanup"
    /\ ~LockHeld
    /\ active_notes' = {}
    /\ sustained_notes_pending_release' = {}
    /\ sustain_pedal_on' = FALSE
    /\ engine' = [engine EXCEPT !.closed = TRUE, !.stop = "done"]
    /\ UNCHANGED <<log, theoryVars, results, sink, sessions>>

NextThreads ==
    \/ Start
    \/ \E msg \in ThreadMessages : Arrive(msg)
    \/ HandlerLoop
    \/ HandlerReceive
    \/ HandlerCheck
    \/ HandlerProcess
    \/ HandlerUpdate
    \/ StopBegin
    \/ StopClose
    \/ StopJoin
    \/ StopCleanup

SpecThreads == Init /\ [][NextThreads]_vars

\* the turns of the handler that applied a message, oldest first
Applied == engine.applied

\* the turn i of the handler is over: the handler is not inside its
\* _update_chord_and_publish
TurnOver(i) == i < Len(Applied) \/ engine.handler # "update"

\* C25: the handler applies the messages in the order they arrived, none
\* skipped; a turn that is over has attempted recognition once if the
\* tracker reported changed and not at all otherwise, so never for a pedal
\* down; and no message is applied while the recognition of the one before
\* is still going on, which is only ever that of the newest applied message.
C25_InOrderOneAttemptPerChange ==
    /\ Len(Applied) <= Len(engine.arrived)
    /\ \A i \in 1..Len(Applied) :
          /\ Applied[i].msg = engine.arrived[i]
          /\ Applied[i].attempts <= 1
          /\ TurnOver(i) => (Applied[i].attempts = 1 <=> Applied[i].changed)
          /\ ~TurnOver(i) => Applied[i].changed /\ Applied[i].attempts = 0
          /\ IsPedalDown(Applied[i].msg) => Applied[i].attempts = 0
    /\ Len(Applied) + Len(engine.port) + (IF engine.msg = NoMsg THEN 0 ELSE 1)
           <= Len(engine.arrived)

\* a key pressed, the pedal pressed, the key released, applied in that
\* order: one attempt for the first, none for the pedal and none for the
\* release the pedal holds
C25_Witness ==
    /\ Len(Applied) = 3
    /\ engine.handler = "loop"
    /\ IsNoteOn(Applied[1].msg) /\ Applied[1].attempts = 1
    /\ IsPedalDown(Applied[2].msg) /\ Applied[2].attempts = 0
    /\ IsNoteOff(Applied[3].msg) /\ ~Applied[3].changed /\ Applied[3].attempts = 0

\* C26: a turn of the handler in which the tracker reported changed hands
\* exactly one payload to the sink: the result of recognition on the
\* sounding set after the turn or, with no match, "N.C." with score 0, the
\* sounding pitches and the name of the lowest of them as bass.
C26_OnePayloadPerChange ==
    [][(log' # log /\ Last'.changed) =>
         /\ Len(sink') = Len(sink) + 1
         /\ sink'[Len(sink')] =
               PublishData(recognize_chord(Self, active_notes',
                                           DEFAULT_MIN_NOTES_FOR_CHORD),
                           active_notes')]_vars

\* a step of the handler thread
HandlerStep ==
    HandlerLoop \/ HandlerReceive \/ HandlerCheck \/ HandlerProcess \/ HandlerUpdate

\* the handler thread is a thread of its own and gets to run
SpecThreadsFair == SpecThreads /\ WF_vars(HandlerStep)

\* C27: while the session is running the handler thread has not ended,
\* whatever its turns have raised, and as long as the session keeps running
\* every message that has arrived gets applied.
C27_ErrorsDoNotEndTheSession ==
    /\ [](engine.running => engine.handler \notin {"none", "exited"})
    /\ []<>(~engine.running \/ Len(Applied) = Len(engine.arrived))

\* a turn raised, and a message that arrived later has been applied with
\* the session still running
C27_Witness ==
    /\ engine.running
    /\ \E i \in 1..Len(Applied) :
          /\ Applied[i].raised = "TypeError"
          /\ i < Len(Applied)
          /\ Applied[Len(Applied)].running

\* C28: once stop() has set running to false, no message is applied to the
\* tracker with a change of its state and nothing more is handed to the
\* sink, whatever the order of the steps of stop() and of the handler.
C28_NothingAfterStop ==
    [][(engine.stop # "idle" /\ ~engine.running) =>
         /\ Applied' # Applied =>
               /\ active_notes' = active_notes
               /\ sustained_notes_pending_release' = sustained_notes_pending_release
               /\ sustain_pedal_on' = sustain_pedal_on
         /\ sink' = sink]_vars

\* the largest number of semitones a played set is moved up by
MaxShift == 6

\* every pitch of S moved up by k semitones
Transposed(S, k) == {n + k : n \in S}

\* the result t is the result r moved up by k semitones
ShiftedResult(r, t, k) ==
    IF r.kind = "chord"
    THEN /\ t.kind = "chord"
         /\ t.root_note_pc = (r.root_note_pc + k) % 12
         /\ t.chord_type = r.chord_type
         /\ t.score = r.score
         /\ t.inversion_type = r.inversion_type
    ELSE t = r

\* C29: the played set moved up by k semitones, all its pitches still MIDI
\* notes, is recognized as the same chord moved up by k: no match if there
\* was none, else the root k higher mod 12 with the same chord type, score
\* and inversion.
C29_TranspositionEquivariant ==
    Recognized =>
        \A k \in 1..MaxShift :
            (\A n \in call.played_midi_notes : n \in 0..127 /\ n + k \in 0..127)
                => ShiftedResult(call.result,
                                 recognize_chord(SelfBefore,
                                                 Transposed(call.played_midi_notes, k),
                                                 call.min_notes_for_chord),
                                 k)

\* C30: a played set of MIDI notes that all have one pitch class, a single
\* note or a note doubled in octaves, is recognized as no chord, whatever
\* min_notes_for_chord is.
C30_SinglePitchClassNoMatch ==
    (/\ Recognized
     /\ call.played_midi_notes \subseteq 0..127
     /\ Cardinality(PitchClassesOf(call.played_midi_notes)) = 1)
        => call.result = None

====
